---- MODULE Spec2Model ----
(***************************************************************************)
(* A model of the Mapbox Vector Tile decoder of                            *)
(* include/mapbox/vector_tile.hpp: buffer, layer, feature (getValue,       *)
(* getProperties, getGeometries) and parseValue.                           *)
(*                                                                         *)
(* Conventions.                                                            *)
(*  - A packed uint32 range (protozero iterator_range) is a sequence; an    *)
(*    iterator is a 1-based index, end() is Len + 1.  Dereferencing or     *)
(*    advancing a protozero varint iterator that stands at end() throws    *)
(*    protozero::end_of_buffer_exception (skip_varint / decode_varint      *)
(*    check the end pointer); the model calls that error "end_of_buffer".  *)
(*  - A uint32 geometry word is kept as the pair the decoder splits it     *)
(*    into: count = word >> 3 (29 bits) and cmd = word & 0x7.  The word's  *)
(*    value is count * 8 + cmd; every use of a word (command decoding and  *)
(*    zig-zag decoding) is computed from that value.                       *)
(*  - A std::vector is a record [pts, cap]: its elements and its capacity. *)
(*    reserve(n) sets the capacity to n when n exceeds it, shrink_to_fit   *)
(*    sets it to the size, and appending to a full vector doubles the      *)
(*    capacity (1 when it was 0), as libstdc++ does.                       *)
(*  - getGeometries is modelled for GeometryCollectionType =               *)
(*    points_arrays_type (coordinate_type = int16_t) and scale = 1.0.      *)
(***************************************************************************)
EXTENDS Integers, Sequences, FiniteSets, TLC

VARIABLES
    pc,             \* position of the running call
    err,            \* "" or the what() of the exception thrown
    \* ---- feature (getGeometries) ----
    type,           \* feature::type
    geometry_iter,  \* feature::geometry_iter, the packed words
    cmd, length, x, y, paths, paths_capacity,
    start_itr, first, len_reserve,
    iters,          \* history: loop iterations started
    prev_itr,       \* history: start_itr when the last iteration started
    cmd_hist,       \* history: the indices of the words read as command words
    reserved,       \* history: the sizes passed to reserve()
    \* ---- layer / feature (getValue, getProperties) ----
    layer_view,     \* the layer message the feature's layer is built from
    tags_iter,      \* feature::tags_iter
    key,            \* the key getValue is asked for
    warning,        \* the caller's warning string: "nullptr", "" or a text
    tag_itr,        \* history: getValue's start_itr when the call ended
    ret,            \* what the call returned
    \* ---- buffer ----
    data,           \* the tile message: a sequence of fields
    layers,         \* buffer::layers: name -> layer view (its index in data)
    name,           \* the name getLayer is asked for
    \* ---- parseValue ----
    value_view      \* the value message handed to parseValue

vars == <<pc, err, type, geometry_iter, cmd, length, x, y, paths,
          paths_capacity, start_itr, first, len_reserve, iters, prev_itr,
          cmd_hist, reserved, layer_view, tags_iter, key, warning, tag_itr, ret,
          data, layers, name, value_view>>

geomVars == <<type, geometry_iter, cmd, length, x, y, paths, paths_capacity,
              start_itr, first, len_reserve, iters, prev_itr, cmd_hist,
              reserved>>
tagVars == <<layer_view, tags_iter, key, warning, tag_itr>>
tileVars == <<data, layers, name>>

(***************************************************************************)
(* Bounds of the model.                                                    *)
(***************************************************************************)
MaxWords == 5

(***************************************************************************)
(* Program constants.                                                      *)
(***************************************************************************)
\* GeomType
UNKNOWN == 0
POINT == 1
LINESTRING == 2
POLYGON == 3
GeomTypes == {UNKNOWN, POINT, LINESTRING, POLYGON}

\* CommandType
MOVE_TO == 1
LINE_TO == 2
CLOSE == 7

MAX_LENGTH == 65536
\* the largest count a command word holds: (2^32 - 1) >> 3
MaxCount == 2^29 - 1

\* std::numeric_limits<int16_t>
max_coord == 32767
min_coord == -32768

(***************************************************************************)
(* Geometry words.                                                         *)
(***************************************************************************)
Word(count, id) == [count |-> count, cmd |-> id]

\* cmd_length & 0x7
CmdOf(w) == w.cmd

\* cmd_length >> 3
CountOf(w) == w.count

\* protozero::decode_zigzag32(v) = (v >> 1) ^ -(v & 1), v = count * 8 + cmd
decode_zigzag32(w) ==
    LET half == w.count * 4 + (w.cmd \div 2)
    IN  IF w.cmd % 2 = 1 THEN -half - 1 ELSE half

\* The words the inputs are drawn from.  As a command / as a parameter:
\*   1  MoveTo x0 / -1        2  LineTo x0 / +1      7  ClosePath x0 / -4
\*   9  MoveTo x1 / -5
\*   BigMove: MoveTo x(2^29 - 1) / -2147483645 (outside int16)
\*   BigLine: LineTo x65537 / +262149 (outside int16)
\* Every word has a command id of {1, 2, 7}: the "unknown command" failure
\* of LoopBody is modelled but no input of these reaches it.
BigMove == Word(MaxCount, MOVE_TO)
BigLine == Word(MAX_LENGTH + 1, LINE_TO)
Words == {Word(0, MOVE_TO), Word(0, LINE_TO), Word(0, CLOSE), Word(1, MOVE_TO),
          BigMove, BigLine}

RECURSIVE SeqsUpTo(_, _)
SeqsUpTo(S, n) ==
    IF n = 0 THEN {<<>>}
    ELSE LET shorter == SeqsUpTo(S, n - 1)
         IN  shorter \cup {Append(s, e) : s \in {t \in shorter : Len(t) = n - 1}, e \in S}

(***************************************************************************)
(* std::vector                                                             *)
(***************************************************************************)
EmptyVec == [pts |-> <<>>, cap |-> 0]

GrowCap(c) == IF c = 0 THEN 1 ELSE 2 * c

VecReserve(v, n) == [v EXCEPT !.cap = IF n > v.cap THEN n ELSE v.cap]

VecShrinkToFit(v) == [v EXCEPT !.cap = Len(v.pts)]

VecPush(v, e) ==
    [pts |-> Append(v.pts, e),
     cap |-> IF Len(v.pts) < v.cap THEN v.cap ELSE GrowCap(v.cap)]

Back(ps) == ps[Len(ps)]

SetBack(ps, v) == [ps EXCEPT ![Len(ps)] = v]

(***************************************************************************)
(* protozero const_uint32_iterator                                         *)
(***************************************************************************)
\* *it on the range `range`: the word, or the end_of_buffer failure.
DerefAtEndReadsZero(range, i) ==
    IF i <= Len(range) THEN [ok |-> TRUE, w |-> range[i]]
    ELSE [ok |-> TRUE, w |-> Word(0, 0)]

Deref(range, i) ==
    IF i <= Len(range) THEN [ok |-> TRUE, w |-> range[i]]
    ELSE [ok |-> FALSE, w |-> Word(0, 0)]

\* ++it
IncStays(i) == i

Inc(i) == i + 1

(***************************************************************************)
(* feature::getGeometries                                                  *)
(***************************************************************************)
extra_coords(t) == IF t = LINESTRING THEN 1 ELSE IF t = POLYGON THEN 2 ELSE 0

is_point(t) == t = POINT

\* the clamp of len_reserve
ClampReserveNone(n) == n

ClampReserve(n) == IF n > MAX_LENGTH THEN MAX_LENGTH ELSE n

\* cmd == MOVE_TO && !paths.back().empty()
StartsNewPathNotPoint(c, back, t) == c = MOVE_TO /\ Len(back.pts) > 0 /\ ~is_point(t)

StartsNewPath(c, back, t) == c = MOVE_TO /\ Len(back.pts) > 0

\* the CLOSE branch, on the current path
ClosePathNoop(back) == back

ClosePath(back) == IF Len(back.pts) > 0 THEN VecPush(back, back.pts[1]) ELSE back

\* the range test on the rounded coordinates, scale = 1.0: px = x0 + d.
\* (written without forming x0 + d, which the code holds in an int64_t)
OutOfRange(x0, d) == d > max_coord - x0 \/ d < min_coord - x0

Locals ==
    [cmd |-> cmd, length |-> length, x |-> x, y |-> y, paths |-> paths,
     paths_capacity |-> paths_capacity, start_itr |-> start_itr,
     first |-> first, len_reserve |-> len_reserve, cmd_hist |-> cmd_hist,
     reserved |-> reserved, pc |-> "loop", err |-> ""]

Throw(s, what) == [s EXCEPT !.pc = "failed", !.err = what]

\* One pass through the body of `while (start_itr != end_itr)`.
LoopBody(s, words, t) ==
    LET rd == s.length = 0
        w  == words[s.start_itr]
        \* if (length == 0) { read the command word }
        s1 == IF rd
              THEN [s EXCEPT !.cmd = CmdOf(w),
                             !.length = CountOf(w),
                             !.len_reserve = ClampReserve(CountOf(w)),
                             !.cmd_hist = Append(@, s.start_itr),
                             !.start_itr = Inc(s.start_itr)]
              ELSE s
    IN  IF s1.cmd = MOVE_TO \/ s1.cmd = LINE_TO
        THEN IF s1.length = 0
             THEN s1    \* continue
             ELSE
               LET \* --length; the reservations
                   resOuter == is_point(t) /\ s1.first /\ s1.cmd = MOVE_TO
                   resBack  == ~is_point(t) /\ s1.first /\ s1.cmd = LINE_TO
                   s2 == [s1 EXCEPT
                            !.length = s1.length - 1,
                            !.paths_capacity =
                                IF resOuter /\ s1.len_reserve > @
                                THEN s1.len_reserve ELSE @,
                            !.paths =
                                IF resBack
                                THEN SetBack(@, VecReserve(Back(@),
                                         s1.len_reserve + extra_coords(t)))
                                ELSE @,
                            !.reserved =
                                IF resOuter THEN @ \cup {s1.len_reserve}
                                ELSE IF resBack
                                THEN @ \cup {s1.len_reserve + extra_coords(t)}
                                ELSE @,
                            !.first = IF resOuter \/ resBack THEN FALSE ELSE @]
                   \* a MoveTo on a non-empty path: shrink it, open a new one
                   open == StartsNewPath(s2.cmd, Back(s2.paths), t)
                   s3 == IF open
                         THEN [s2 EXCEPT
                                 !.paths = Append(SetBack(@, VecShrinkToFit(Back(@))),
                                                  EmptyVec),
                                 !.paths_capacity =
                                     IF Len(s2.paths) < @ THEN @ ELSE GrowCap(@),
                                 !.first = IF ~is_point(t) THEN TRUE ELSE @]
                         ELSE s2
                   \* the two parameter words
                   rx == Deref(words, s3.start_itr)
                   ix == Inc(s3.start_itr)
                   ry == Deref(words, ix)
                   iy == Inc(ix)
                   dx == decode_zigzag32(rx.w)
                   dy == decode_zigzag32(ry.w)
               IN  IF ~rx.ok THEN Throw(s3, "end_of_buffer")
                   ELSE IF ~ry.ok
                   THEN Throw([s3 EXCEPT !.start_itr = ix], "end_of_buffer")
                   ELSE IF OutOfRange(s3.x, dx) \/ OutOfRange(s3.y, dy)
                   THEN Throw([s3 EXCEPT !.start_itr = iy],
                              "paths outside valid range of coordinate_type")
                   ELSE [s3 EXCEPT
                           !.start_itr = iy,
                           !.x = s3.x + dx,
                           !.y = s3.y + dy,
                           !.paths = SetBack(@, VecPush(Back(@),
                                                <<s3.x + dx, s3.y + dy>>))]
        ELSE IF s1.cmd = CLOSE
        THEN [s1 EXCEPT !.paths = SetBack(@, ClosePath(Back(@))),
                        !.length = 0]
        ELSE Throw(s1, "unknown command")

\* the variables of the calls a specification does not make
GeomIdle ==
    /\ type = UNKNOWN /\ geometry_iter = <<>>
    /\ cmd = 0 /\ length = 0 /\ x = 0 /\ y = 0
    /\ paths = <<>> /\ paths_capacity = 0
    /\ start_itr = 0 /\ first = FALSE /\ len_reserve = 0
    /\ iters = 0 /\ prev_itr = 0 /\ cmd_hist = <<>> /\ reserved = {}

TagIdle ==
    /\ layer_view = <<>> /\ tags_iter = <<>> /\ key = "" /\ warning = "nullptr"
    /\ tag_itr = 0

TileIdle == data = <<>> /\ layers = <<>> /\ name = ""

ValueIdle == value_view = <<>>

\* The feature is constructed; nothing has been called yet.
GeomInit ==
    /\ pc = "start"
    /\ err = ""
    /\ type \in GeomTypes
    /\ geometry_iter \in SeqsUpTo(Words, MaxWords)
    /\ cmd = 0 /\ length = 0 /\ x = 0 /\ y = 0
    /\ paths = <<>> /\ paths_capacity = 0
    /\ start_itr = 0 /\ first = FALSE /\ len_reserve = 0
    /\ iters = 0 /\ prev_itr = 0 /\ cmd_hist = <<>> /\ reserved = {}
    /\ TagIdle /\ TileIdle /\ ValueIdle
    /\ ret = <<>>

\* getGeometries up to the loop: the locals, paths.emplace_back().
GetGeometriesEnter ==
    /\ pc = "start"
    /\ pc' = "loop"
    /\ cmd' = 1 /\ length' = 0 /\ x' = 0 /\ y' = 0
    /\ paths' = <<EmptyVec>> /\ paths_capacity' = GrowCap(0)
    /\ start_itr' = 1 /\ first' = TRUE /\ len_reserve' = 0
    /\ UNCHANGED <<err, type, geometry_iter, iters, prev_itr, cmd_hist, reserved,
                   tagVars, ret, tileVars, value_view>>

\* One iteration of the loop.
GetGeometriesStep ==
    /\ pc = "loop"
    /\ start_itr <= Len(geometry_iter)
    /\ LET r == LoopBody(Locals, geometry_iter, type)
       IN  /\ pc' = r.pc /\ err' = r.err
           /\ cmd' = r.cmd /\ length' = r.length /\ x' = r.x /\ y' = r.y
           /\ paths' = r.paths /\ paths_capacity' = r.paths_capacity
           /\ start_itr' = r.start_itr /\ first' = r.first
           /\ len_reserve' = r.len_reserve
           /\ cmd_hist' = r.cmd_hist /\ reserved' = r.reserved
    /\ iters' = iters + 1
    /\ prev_itr' = start_itr
    /\ UNCHANGED <<type, geometry_iter, tagVars, ret, tileVars, value_view>>

\* The loop is left: the outer shrink_to_fit and the return.
GetGeometriesReturn ==
    /\ pc = "loop"
    /\ start_itr > Len(geometry_iter)
    /\ pc' = "returned"
    /\ paths_capacity' = IF Len(paths) < paths_capacity THEN Len(paths)
                         ELSE paths_capacity
    /\ ret' = paths
    /\ UNCHANGED <<err, type, geometry_iter, cmd, length, x, y, paths,
                   start_itr, first, len_reserve, iters, prev_itr, cmd_hist,
                   reserved, tagVars, tileVars, value_view>>

GeomNext == GetGeometriesEnter \/ GetGeometriesStep \/ GetGeometriesReturn

GeomSpec == GeomInit /\ [][GeomNext]_vars

(***************************************************************************)
(* Protocol buffer messages.  A message is the sequence of its fields in   *)
(* wire order; a field is its tag and its payload as it stands on the      *)
(* wire: a number n (varint, float, double), a string s, or a nested       *)
(* message m.                                                              *)
(***************************************************************************)
FieldN(t, n) == [tag |-> t, n |-> n, s |-> "", m |-> <<>>]

FieldS(t, s) == [tag |-> t, n |-> 0, s |-> s, m |-> <<>>]

FieldM(t, m) == [tag |-> t, n |-> 0, s |-> "", m |-> m]

\* ValueType
ValueType_STRING == 1
ValueType_FLOAT == 2
ValueType_DOUBLE == 3
ValueType_INT == 4
ValueType_UINT == 5
ValueType_SINT == 6
ValueType_BOOL == 7

\* LayerType
LayerType_NAME == 1
LayerType_FEATURES == 2
LayerType_KEYS == 3
LayerType_VALUES == 4
LayerType_EXTENT == 5
LayerType_VERSION == 15

\* TileType
TileType_LAYERS == 3

(***************************************************************************)
(* parseValue                                                              *)
(***************************************************************************)
\* mapbox::feature::value, a variant: the alternative held and its value
null_value == [kind |-> "null_value_t", n |-> 0, s |-> "", b |-> FALSE]

StringValue(s) == [kind |-> "string", n |-> 0, s |-> s, b |-> FALSE]

DoubleValue(n) == [kind |-> "double", n |-> n, s |-> "", b |-> FALSE]

Int64Value(n) == [kind |-> "int64_t", n |-> n, s |-> "", b |-> FALSE]

UInt64Value(n) == [kind |-> "uint64_t", n |-> n, s |-> "", b |-> FALSE]

BoolValue(b) == [kind |-> "bool", n |-> 0, s |-> "", b |-> b]

\* protozero::decode_zigzag64(v) = (v >> 1) ^ -(v & 1)
decode_zigzag64(v) == IF v % 2 = 1 THEN -(v \div 2) - 1 ELSE v \div 2

\* One pass through the switch of parseValue: the value after field f.
ParseFieldKeepsFirst(value, f) ==
    IF value # null_value THEN value
    ELSE IF f.tag = ValueType_STRING THEN StringValue(f.s)
    ELSE IF f.tag = ValueType_FLOAT THEN DoubleValue(f.n)
    ELSE IF f.tag = ValueType_DOUBLE THEN DoubleValue(f.n)
    ELSE IF f.tag = ValueType_INT THEN Int64Value(f.n)
    ELSE IF f.tag = ValueType_UINT THEN UInt64Value(f.n)
    ELSE IF f.tag = ValueType_SINT THEN Int64Value(decode_zigzag64(f.n))
    ELSE IF f.tag = ValueType_BOOL THEN BoolValue(f.n # 0)
    ELSE value

ParseField(value, f) ==
    IF f.tag = ValueType_STRING THEN StringValue(f.s)
    ELSE IF f.tag = ValueType_FLOAT THEN DoubleValue(f.n)
    ELSE IF f.tag = ValueType_DOUBLE THEN DoubleValue(f.n)
    ELSE IF f.tag = ValueType_INT THEN Int64Value(f.n)
    ELSE IF f.tag = ValueType_UINT THEN UInt64Value(f.n)
    ELSE IF f.tag = ValueType_SINT THEN Int64Value(decode_zigzag64(f.n))
    ELSE IF f.tag = ValueType_BOOL THEN BoolValue(f.n # 0)
    ELSE value      \* value_reader.skip()

parseValue(view) ==
    LET F[i \in 0..Len(view)] ==
            IF i = 0 THEN null_value ELSE ParseField(F[i - 1], view[i])
    IN  F[Len(view)]

MaxFields == 3

\* the fields value messages are drawn from; tag 8 is not a ValueType
ValueFields ==
    {FieldS(ValueType_STRING, "a"), FieldS(ValueType_STRING, "b"),
     FieldN(ValueType_FLOAT, 1), FieldN(ValueType_DOUBLE, 2),
     FieldN(ValueType_INT, 3), FieldN(ValueType_UINT, 3),
     FieldN(ValueType_SINT, 3), FieldN(ValueType_SINT, 4),
     FieldN(ValueType_BOOL, 0), FieldN(ValueType_BOOL, 1), FieldN(8, 9)}

ValueInit ==
    /\ pc = "start"
    /\ err = ""
    /\ value_view \in SeqsUpTo(ValueFields, MaxFields)
    /\ GeomIdle /\ TagIdle /\ TileIdle
    /\ ret = null_value

CallParseValue ==
    /\ pc = "start"
    /\ pc' = "parseValue_returned"
    /\ ret' = parseValue(value_view)
    /\ UNCHANGED <<err, geomVars, tagVars, tileVars, value_view>>

ValueNext == CallParseValue

ValueSpec == ValueInit /\ [][ValueNext]_vars

(***************************************************************************)
(* layer::layer                                                            *)
(***************************************************************************)
\* the members after the initializer list, and the three has_ flags
NewLayer ==
    [name |-> "", version |-> 1, extent |-> 4096,
     keysMap |-> <<>>,      \* key -> the indices registered for it, in order
     keys |-> <<>>, values |-> <<>>, features |-> <<>>,
     has_name |-> FALSE, has_extent |-> FALSE, has_version |-> FALSE]

\* keysMap.emplace(key, index): a multimap keeps every pair, equal keys in
\* insertion order
KeysMapEmplace(km, k, index) ==
    IF k \in DOMAIN km THEN [km EXCEPT ![k] = Append(@, index)]
    ELSE (k :> <<index>>) @@ km

\* One pass through the switch of the constructor: the layer after field f.
LayerField(l, f) ==
    IF f.tag = LayerType_NAME
    THEN [l EXCEPT !.name = f.s, !.has_name = TRUE]
    ELSE IF f.tag = LayerType_FEATURES
    THEN [l EXCEPT !.features = Append(@, f.m)]
    ELSE IF f.tag = LayerType_KEYS
    THEN [l EXCEPT !.keysMap = KeysMapEmplace(@, f.s, Len(l.keys)),
                   !.keys = Append(@, f.s)]
    ELSE IF f.tag = LayerType_VALUES
    THEN [l EXCEPT !.values = Append(@, f.m)]
    ELSE IF f.tag = LayerType_EXTENT
    THEN [l EXCEPT !.extent = f.n, !.has_extent = TRUE]
    ELSE IF f.tag = LayerType_VERSION
    THEN [l EXCEPT !.version = f.n, !.has_version = TRUE]
    ELSE l      \* layer_pbf.skip()

\* the message of the exception for the missing required fields ("" if none)
MissingMessage(l) ==
    IF l.has_version /\ l.has_name /\ l.has_extent THEN ""
    ELSE IF ~l.has_version /\ ~l.has_extent /\ ~l.has_name
    THEN "missing required field: version  extent  name"
    ELSE IF ~l.has_version /\ ~l.has_extent
    THEN "missing required field: version  extent "
    ELSE IF ~l.has_version /\ ~l.has_name
    THEN "missing required field: version  name"
    ELSE IF ~l.has_extent /\ ~l.has_name
    THEN "missing required field: extent  name"
    ELSE IF ~l.has_version THEN "missing required field: version "
    ELSE IF ~l.has_extent THEN "missing required field: extent "
    ELSE "missing required field: name"

\* layer(layer_view): the layer built, and the exception thrown if any
LayerCtor(view) ==
    LET F[i \in 0..Len(view)] ==
            IF i = 0 THEN NewLayer ELSE LayerField(F[i - 1], view[i])
    IN  [layer |-> F[Len(view)], err |-> MissingMessage(F[Len(view)])]

(***************************************************************************)
(* feature::getValue                                                       *)
(***************************************************************************)
DuplicateKeysWarning == "duplicate keys with different tag ids are found"

\* layer_.keysMap.equal_range(key), as the sequence of the indices
equal_range(km, k) == IF k \in DOMAIN km THEN km[k] ELSE <<>>

\* the for loop over key_range
KeyFoundFirstOnly(key_range, tag_key) == key_range[1] = tag_key

KeyFound(key_range, tag_key) ==
    \E j \in 1..Len(key_range) : key_range[j] = tag_key

\* getValue(k, warning) on a feature of layer l with the tags `tags`:
\* what is returned, what is thrown, the caller's string afterwards and
\* where the tag iterator stood
getValue(l, tags, k, warn) ==
    LET key_range == equal_range(l.keysMap, k)
        key_count == Len(key_range)
        values_count == Len(l.values)
        end_itr == Len(tags) + 1
        Scan[i \in 1..end_itr] ==
            IF i = end_itr
            THEN [ret |-> null_value, err |-> "", warning |-> warn, itr |-> i]
            ELSE LET tag_key == tags[i]
                 IN  IF Inc(i) = end_itr
                     THEN [ret |-> null_value,
                           err |-> "uneven number of feature tag ids",
                           warning |-> warn, itr |-> Inc(i)]
                     ELSE LET tag_val == tags[Inc(i)]
                              next == Inc(Inc(i))
                          IN  IF values_count <= tag_val
                              THEN [ret |-> null_value,
                                    err |-> "feature referenced out of range value",
                                    warning |-> warn, itr |-> next]
                              ELSE IF KeyFound(key_range, tag_key)
                              THEN [ret |-> parseValue(l.values[tag_val + 1]),
                                    err |-> "",
                                    warning |-> IF key_count > 1 /\ warn # "nullptr"
                                                THEN DuplicateKeysWarning
                                                ELSE warn,
                                    itr |-> next]
                              ELSE Scan[next]
    IN  IF key_count < 1
        THEN [ret |-> null_value, err |-> "", warning |-> warn, itr |-> 1]
        ELSE Scan[1]

(***************************************************************************)
(* feature::getProperties                                                  *)
(***************************************************************************)
\* properties.emplace(k, v): an unordered_map keeps the element it has
PropertiesEmplaceOverwrites(properties, k, v) ==
    (k :> v) @@ properties

PropertiesEmplace(properties, k, v) ==
    IF k \in DOMAIN properties THEN properties ELSE (k :> v) @@ properties

\* keys.at(i), values.at(i)
InRange(vec, i) == i < Len(vec)

RECURSIVE PropertiesLoop(_, _, _, _)
PropertiesLoop(l, tags, i, properties) ==
    IF i = Len(tags) + 1 THEN [properties |-> properties, err |-> ""]
    ELSE IF Inc(i) = Len(tags) + 1
    THEN [properties |-> properties, err |-> "uneven number of feature tag ids"]
    ELSE LET tag_key == tags[i]
             tag_val == tags[Inc(i)]
         IN  IF ~InRange(l.keys, tag_key) \/ ~InRange(l.values, tag_val)
             THEN [properties |-> properties, err |-> "out_of_range"]
             ELSE PropertiesLoop(l, tags, Inc(Inc(i)),
                      PropertiesEmplace(properties, l.keys[tag_key + 1],
                                        parseValue(l.values[tag_val + 1])))

getProperties(l, tags) == PropertiesLoop(l, tags, 1, <<>>)

(***************************************************************************)
(* A feature of a layer: getValue and getProperties                        *)
(***************************************************************************)
MaxKeys == 2
MaxValues == 2
MaxTags == 4

KeyNames == {"a", "b"}

\* the key and value indices the tag pairs are drawn from
TagIds == {0, 1, 2}

\* the i-th entry of the value table: values that parse differently
ValueView(i) ==
    IF i % 2 = 1 THEN <<FieldN(ValueType_UINT, i)>>
    ELSE <<FieldS(ValueType_STRING, "s"), FieldN(ValueType_SINT, 2 * i)>>

\* a layer message with the keys ks and nv values
LayerMessage(ks, nv) ==
    <<FieldS(LayerType_NAME, "l"), FieldN(LayerType_VERSION, 2),
      FieldN(LayerType_EXTENT, 4096)>>
    \o [i \in 1..Len(ks) |-> FieldS(LayerType_KEYS, ks[i])]
    \o [i \in 1..nv |-> FieldM(LayerType_VALUES, ValueView(i))]

\* the layer the feature is bound to
layer_ == LayerCtor(layer_view).layer

TagInit ==
    /\ pc = "start"
    /\ err = ""
    /\ \E ks \in SeqsUpTo(KeyNames, MaxKeys), nv \in 0..MaxValues :
           layer_view = LayerMessage(ks, nv)
    /\ tags_iter \in SeqsUpTo(TagIds, MaxTags)
    /\ key \in KeyNames \cup {"c"}
    /\ warning \in {"nullptr", ""}
    /\ tag_itr = 0
    /\ GeomIdle /\ TileIdle /\ ValueIdle
    /\ ret = null_value

CallGetValue ==
    /\ pc = "start"
    /\ LET r == getValue(layer_, tags_iter, key, warning)
       IN  /\ err' = r.err
           /\ ret' = IF r.err = "" THEN r.ret ELSE ret
           /\ warning' = r.warning /\ tag_itr' = r.itr
    /\ pc' = "getValue_done"
    /\ UNCHANGED <<geomVars, layer_view, tags_iter, key, tileVars, value_view>>

CallGetProperties ==
    /\ pc = "start"
    /\ LET r == getProperties(layer_, tags_iter)
       IN  /\ err' = r.err
           \* a throw unwinds the local map: the caller receives nothing
           /\ ret' = IF r.err = "" THEN r.properties ELSE ret
    /\ pc' = "getProperties_done"
    /\ UNCHANGED <<geomVars, tagVars, tileVars, value_view>>

TagNext == CallGetValue \/ CallGetProperties

TagSpec == TagInit /\ [][TagNext]_vars

(***************************************************************************)
(* buffer                                                                  *)
(***************************************************************************)
\* layers.emplace(name, layer_view): a std::map keeps the element it has
LayersEmplaceOverwrites(ls, n, view) == (n :> view) @@ ls

LayersEmplace(ls, n, view) == IF n \in DOMAIN ls THEN ls ELSE (n :> view) @@ ls

\* while (layer_reader.next(LayerType::NAME)) name = get_string()
ScanName(view) ==
    LET F[i \in 0..Len(view)] ==
            IF i = 0 THEN [name |-> "", has_name |-> FALSE]
            ELSE IF view[i].tag = LayerType_NAME
            THEN [name |-> view[i].s, has_name |-> TRUE]
            ELSE F[i - 1]
    IN  F[Len(view)]

\* buffer(data): the map built, and the exception thrown if any.  A layer
\* view is kept as the index in `d` of the field it spans.
BufferCtor(d) ==
    LET F[i \in 0..Len(d)] ==
            IF i = 0 THEN [layers |-> <<>>, err |-> ""]
            ELSE IF F[i - 1].err # "" THEN F[i - 1]
            ELSE IF d[i].tag # TileType_LAYERS THEN F[i - 1]
            ELSE LET n == ScanName(d[i].m)
                 IN  IF ~n.has_name
                     THEN [F[i - 1] EXCEPT !.err = "Layer missing name"]
                     ELSE [F[i - 1] EXCEPT
                              !.layers = LayersEmplace(@, n.name, i)]
    IN  F[Len(d)]

\* the names in the order a std::map iterates them
NameOrder == <<"a", "b", "c">>

\* buffer::layerNames
layerNames(ls) == SelectSeq(NameOrder, LAMBDA n : n \in DOMAIN ls)

\* buffer::getLayer: the layer parsed, and the exception thrown if any (the
\* text of the lookup failure ends with the name asked for, in quotes)
getLayer(d, ls, n) ==
    IF n \notin DOMAIN ls
    THEN [layer |-> NewLayer, err |-> "no layer by the name of"]
    ELSE LayerCtor(d[ls[n]].m)

MaxLayers == 3

\* the layer messages tiles are drawn from: two different layers named
\* "a", a layer "b", a layer with two names, one without a name, one
\* without a version
LayerMessages ==
    {<<FieldS(LayerType_NAME, "a"), FieldN(LayerType_VERSION, 2),
       FieldN(LayerType_EXTENT, 4096)>>,
     <<FieldS(LayerType_NAME, "a"), FieldN(LayerType_VERSION, 1),
       FieldN(LayerType_EXTENT, 512)>>,
     <<FieldS(LayerType_NAME, "b"), FieldN(LayerType_VERSION, 2),
       FieldN(LayerType_EXTENT, 4096), FieldS(LayerType_KEYS, "a")>>,
     <<FieldS(LayerType_NAME, "b"), FieldS(LayerType_NAME, "a"),
       FieldN(LayerType_VERSION, 2), FieldN(LayerType_EXTENT, 256)>>,
     <<FieldN(LayerType_VERSION, 2), FieldN(LayerType_EXTENT, 4096)>>,
     <<FieldS(LayerType_NAME, "a"), FieldN(LayerType_EXTENT, 4096)>>}

\* the fields of a tile message: layers, and a field that is not a layer
TileFields == {FieldM(TileType_LAYERS, m) : m \in LayerMessages} \cup {FieldN(1, 0)}

TileInit ==
    /\ pc = "start"
    /\ err = ""
    /\ data \in SeqsUpTo(TileFields, MaxLayers)
    /\ layers = <<>> /\ name = ""
    /\ GeomIdle /\ TagIdle /\ ValueIdle
    /\ ret = <<>>

BufferConstruct ==
    /\ pc = "start"
    /\ LET r == BufferCtor(data)
       IN  /\ err' = r.err
           /\ layers' = IF r.err = "" THEN r.layers ELSE layers
           /\ pc' = IF r.err = "" THEN "constructed" ELSE "failed"
    /\ UNCHANGED <<geomVars, tagVars, data, name, ret, value_view>>

CallLayerNames ==
    /\ pc = "constructed"
    /\ ret' = layerNames(layers)
    /\ pc' = "layerNames_done"
    /\ UNCHANGED <<err, geomVars, tagVars, tileVars, value_view>>

CallGetLayer ==
    /\ pc = "constructed"
    /\ \E n \in {"a", "b", "c"} :
          /\ name' = n
          /\ LET r == getLayer(data, layers, n)
             IN  /\ err' = r.err
                 /\ ret' = IF r.err = "" THEN r.layer ELSE ret
    /\ pc' = "getLayer_done"
    /\ UNCHANGED <<geomVars, tagVars, data, layers, value_view>>

TileNext == BufferConstruct \/ CallLayerNames \/ CallGetLayer

TileSpec == TileInit /\ [][TileNext]_vars

(***************************************************************************)
(* Reading a run of getGeometries back from its input and its history.     *)
(***************************************************************************)
NWords == Len(geometry_iter)

GeomDone == pc \in {"returned", "failed"}

\* the index of the last word read as a command word (0: none yet)
LastCmdPos == IF cmd_hist = <<>> THEN 0 ELSE cmd_hist[Len(cmd_hist)]

LastCmdWord == geometry_iter[LastCmdPos]

\* the command ids decoded so far
CmdsRead == {CmdOf(geometry_iter[cmd_hist[i]]) : i \in 1..Len(cmd_hist)}

\* the words that follow the last command word
ParamsAfterCmd == NWords - LastCmdPos

\* The stream ends inside a MoveTo / LineTo repetition: every word after
\* the last command word has been taken as a parameter, and either their
\* number is odd or none follows a command word whose count is positive.
EndsMidPair ==
    /\ LastCmdPos > 0
    /\ start_itr = NWords + 1
    /\ CmdOf(LastCmdWord) \in {MOVE_TO, LINE_TO}
    /\ \/ ParamsAfterCmd % 2 = 1
       \/ ParamsAfterCmd = 0 /\ CountOf(LastCmdWord) > 0

\* the indices of the words read as parameters, in wire order
ParamPositions ==
    LET isParam(i) == \A j \in 1..Len(cmd_hist) : cmd_hist[j] # i
        F[i \in 0..NWords] ==
            IF i = 0 THEN <<>>
            ELSE IF isParam(i) /\ i < start_itr THEN Append(F[i - 1], i)
            ELSE F[i - 1]
    IN  F[NWords]

\* the points of the parameter pairs, in wire order: the running sums of
\* the zig-zag decoded deltas
PointsOnWire ==
    LET pp == ParamPositions
        n  == Len(pp) \div 2
        P[k \in 0..n] ==
            IF k = 0 THEN <<>>
            ELSE LET prev == IF k = 1 THEN <<0, 0>> ELSE P[k - 1][k - 1]
                     dx == decode_zigzag32(geometry_iter[pp[2 * k - 1]])
                     dy == decode_zigzag32(geometry_iter[pp[2 * k]])
                 IN  Append(P[k - 1], <<prev[1] + dx, prev[2] + dy>>)
    IN  P[n]

\* the points of all paths, in order
AllPoints ==
    LET F[i \in 0..Len(paths)] ==
            IF i = 0 THEN <<>> ELSE F[i - 1] \o paths[i].pts
    IN  F[Len(paths)]

(***************************************************************************)
(* Claims about getGeometries                                              *)
(***************************************************************************)

\* C1: when the stream ends while a MoveTo or LineTo repetition still
\* needs one or both of its parameter words, getGeometries fails with the
\* truncation error (end_of_buffer); it never reads at or beyond the end of
\* the sequence and never returns a collection in that case.
C1_TruncatedFails ==
    /\ start_itr <= NWords + 1
    /\ (GeomDone /\ EndsMidPair) => (pc = "failed" /\ err = "end_of_buffer")
    /\ err = "end_of_buffer" => EndsMidPair

\* a full pair was decoded and then half a pair was left
C1_Witness ==
    /\ pc = "failed" /\ err = "end_of_buffer"
    /\ ParamsAfterCmd = 3
    /\ Len(AllPoints) = 1

\* C2 (as amended): for a Point feature whose commands are all MoveTo,
\* getGeometries returns one path per point, each holding exactly that
\* point, in wire order (and the single empty path when there is no point).
C2_PointPerPath ==
    (pc = "returned" /\ type = POINT /\ CmdsRead \subseteq {MOVE_TO}) =>
        LET pts == PointsOnWire
        IN  /\ Len(paths) = (IF Len(pts) = 0 THEN 1 ELSE Len(pts))
            /\ Len(pts) = 0 => paths[1].pts = <<>>
            /\ \A i \in 1..Len(pts) : paths[i].pts = <<pts[i]>>

C2_Witness ==
    /\ pc = "returned" /\ type = POINT /\ CmdsRead = {MOVE_TO}
    /\ Len(PointsOnWire) = 2
    /\ Len(paths) = 2

\* C2 (as claimed): for a Point feature whose commands are all MoveTo,
\* getGeometries returns exactly one point sequence, paths[0], holding every
\* point in wire order.
C2_SinglePath ==
    (pc = "returned" /\ type = POINT /\ CmdsRead \subseteq {MOVE_TO}) =>
        /\ Len(paths) = 1
        /\ paths[1].pts = PointsOnWire

\* C7 (as amended): every reservation getGeometries requests is for at most
\* MAX_LENGTH entries on the outer collection and MAX_LENGTH + extra_coords
\* entries on a path, whatever the 29-bit count; the per-command counter
\* keeps the unclamped count, so every parameter pair present in the stream
\* is decoded into a point.
C7_ReserveClamped ==
    /\ \A r \in reserved : r <= MAX_LENGTH + extra_coords(type)
    /\ (pc = "loop" /\ LastCmdPos > 0 /\ cmd \in {MOVE_TO, LINE_TO}) =>
          length = CountOf(LastCmdWord) - ((start_itr - LastCmdPos - 1) \div 2)
    /\ (pc = "returned" /\ CLOSE \notin CmdsRead) => AllPoints = PointsOnWire

\* the largest count, clamped on a reservation, with its pairs decoded
C7_Witness ==
    /\ pc = "returned"
    /\ LastCmdPos > 0 /\ CountOf(LastCmdWord) = MaxCount
    /\ MAX_LENGTH \in reserved
    /\ Len(AllPoints) = 2

\* C7 (as claimed): every reservation is for at most 65536 entries.
C7_ReserveAtMostMax == \A r \in reserved : r <= MAX_LENGTH

\* This step reads a command word whose count is zero.
ReadsZeroCount(id) ==
    /\ pc = "loop" /\ length = 0 /\ start_itr <= NWords
    /\ CountOf(geometry_iter[start_itr]) = 0
    /\ CmdOf(geometry_iter[start_itr]) = id

\* the step changed nothing but the read position: the next word is read
\* as a command word
AdvancesOnly ==
    /\ pc' = "loop" /\ err' = ""
    /\ length' = 0
    /\ start_itr' = start_itr + 1
    /\ x' = x /\ y' = y

\* C8 (as amended): a MoveTo or LineTo command word whose count is zero is
\* a no-op: no point, no path, no error, no underflow of the counter, and
\* the next word is read as a command word.  A ClosePath word whose count
\* is zero raises no error and is followed by a command word too, but it
\* still closes the current path: a non-empty path gets its first point
\* appended.
C8_ZeroCount ==
    [][ /\ (ReadsZeroCount(MOVE_TO) \/ ReadsZeroCount(LINE_TO)) =>
            (AdvancesOnly /\ paths' = paths /\ paths_capacity' = paths_capacity)
        /\ ReadsZeroCount(CLOSE) =>
            /\ AdvancesOnly
            /\ Len(paths') = Len(paths)
            /\ Back(paths').pts =
                  IF Back(paths).pts = <<>> THEN <<>>
                  ELSE Append(Back(paths).pts, Back(paths).pts[1])
      ]_vars

\* a zero-count ClosePath has just closed a path, after a zero-count MoveTo
\* or LineTo passed without effect
C8_Witness ==
    /\ pc = "loop"
    /\ Len(cmd_hist) = 3
    /\ LastCmdPos = start_itr - 1
    /\ LastCmdWord = Word(0, CLOSE)
    /\ CountOf(geometry_iter[cmd_hist[2]]) = 0
    /\ CmdOf(geometry_iter[cmd_hist[2]]) \in {MOVE_TO, LINE_TO}
    /\ Len(Back(paths).pts) = 2

\* C8 (as claimed): a command word whose count is zero is a no-op for each
\* of MoveTo, LineTo and ClosePath.
C8_ZeroCountNoop ==
    [][ (ReadsZeroCount(MOVE_TO) \/ ReadsZeroCount(LINE_TO) \/ ReadsZeroCount(CLOSE)) =>
            (AdvancesOnly /\ paths' = paths /\ paths_capacity' = paths_capacity)
      ]_vars

\* C9: the loop stops, by returning or by failing: every iteration
\* consumes at least one word, the read position only increases and never
\* steps over the end, so there are at most as many iterations as words.
C9_Terminates ==
    pc # "start" =>
          /\ start_itr <= NWords + 1
          /\ iters > 0 => start_itr > prev_itr
          /\ iters <= start_itr - 1
          /\ iters <= NWords

\* the loop ran once per word and returned
C9_Witness ==
    /\ pc = "returned"
    /\ iters = NWords
    /\ NWords = MaxWords

\* C10 (as claimed): on return every path, the last one included, and the
\* outer collection have capacity equal to size.
C10_AllShrunk ==
    pc = "returned" =>
        /\ paths_capacity = Len(paths)
        /\ \A i \in 1..Len(paths) : paths[i].cap = Len(paths[i].pts)

(***************************************************************************)
(* Claims about parseValue                                                 *)
(***************************************************************************)
ValueTags == {ValueType_STRING, ValueType_FLOAT, ValueType_DOUBLE, ValueType_INT, ValueType_UINT, ValueType_SINT, ValueType_BOOL}

\* the positions of the value-bearing fields of the message
ValueBearing == {i \in 1..Len(value_view) : value_view[i].tag \in ValueTags}

\* what a value-bearing field holds, read on its own
FieldValue(f) == parseValue(<<f>>)

Least(S) == CHOOSE i \in S : \A j \in S : i <= j

Greatest(S) == CHOOSE i \in S : \A j \in S : j <= i

\* C6 (as amended): parseValue returns the value of the LAST value-bearing
\* field of the message in wire order (each one overwrites the value of the
\* ones before it); unknown fields are skipped, and a message with no
\* value-bearing field yields null.
C6_LastFieldWins ==
    pc = "parseValue_returned" =>
        ret = IF ValueBearing = {} THEN null_value
              ELSE FieldValue(value_view[Greatest(ValueBearing)])

\* two value-bearing fields with different values, and an unknown field
C6_Witness ==
    /\ pc = "parseValue_returned"
    /\ Cardinality(ValueBearing) = 2
    /\ Cardinality(ValueBearing) < Len(value_view)
    /\ FieldValue(value_view[Least(ValueBearing)]) #
           FieldValue(value_view[Greatest(ValueBearing)])
    /\ ret # null_value

\* C6 (as claimed): parseValue returns the value of the first value-bearing
\* field; later value-bearing fields do not change the result.
C6_FirstFieldWins ==
    pc = "parseValue_returned" =>
        ret = IF ValueBearing = {} THEN null_value
              ELSE FieldValue(value_view[Least(ValueBearing)])

(***************************************************************************)
(* Claims about getProperties and getValue                                 *)
(***************************************************************************)
\* the complete (key-index, value-index) pairs of the tag stream
NPairs == Len(tags_iter) \div 2

PairKey(j) == tags_iter[2 * j - 1]

PairVal(j) == tags_iter[2 * j]

\* the key name and the value a pair refers to (both indices in range)
PairName(j) == layer_.keys[PairKey(j) + 1]

PairValue(j) == parseValue(layer_.values[PairVal(j) + 1])

\* C4 (as amended): getProperties decodes the tag pairs in wire order and,
\* when two pairs resolve to the same key name, the value of the EARLIER
\* pair is kept: for every key in the result, the mapped value is the value
\* referenced by the first pair of the tag stream that carries that name.
C4_FirstPairWins ==
    (pc = "getProperties_done" /\ err = "") =>
        /\ DOMAIN ret = {PairName(j) : j \in 1..NPairs}
        /\ \A j \in 1..NPairs :
              ret[PairName(j)] =
                  PairValue(Least({i \in 1..NPairs : PairName(i) = PairName(j)}))

\* two pairs carry the same key name and refer to different values
C4_Witness ==
    /\ pc = "getProperties_done" /\ err = ""
    /\ \E i, j \in 1..NPairs :
          /\ i < j
          /\ PairName(i) = PairName(j)
          /\ PairKey(i) # PairKey(j)
          /\ PairValue(i) # PairValue(j)

\* C4 (as claimed): for every key in the result, the mapped value is the
\* value referenced by the last pair of the tag stream that carries that name.
C4_LastPairWins ==
    (pc = "getProperties_done" /\ err = "") =>
        /\ DOMAIN ret = {PairName(j) : j \in 1..NPairs}
        /\ \A j \in 1..NPairs :
              ret[PairName(j)] =
                  PairValue(Greatest({i \in 1..NPairs : PairName(i) = PairName(j)}))

\* the indices registered for the key getValue is asked for
KeyIndices == {i - 1 : i \in {k \in 1..Len(layer_.keys) : layer_.keys[k] = key}}

\* the first pair whose key-index is one of them (0: none)
FirstMatch ==
    LET M == {j \in 1..NPairs : PairKey(j) \in KeyIndices}
    IN  IF M = {} THEN 0 ELSE Least(M)

\* the pairs scanned: up to and including the match, or all of them
Scanned == IF FirstMatch = 0 THEN 1..NPairs ELSE 1..FirstMatch

\* C5 (as amended): getValue returns null without scanning the tags when the
\* key is not in the key index; otherwise it scans the tag pairs in order and
\* returns the parsed value of the first pair whose key-index is any index
\* registered for the key, skipping pairs whose key-index is out of range.
\* It fails when a pair scanned up to and including the match has a
\* value-index >= the value count; when no pair matches it returns null only
\* if the tag stream holds an even number of ids, and fails with the
\* uneven-tags error if the stream ends on half a pair.  The duplicate-keys
\* warning is written exactly when a match is found, more than one index is
\* registered AND the caller passed a string to write to: with the default
\* null argument nothing is written.
C5_GetValue ==
    pc = "getValue_done" =>
        IF KeyIndices = {}
        THEN ret = null_value /\ err = "" /\ tag_itr = 1
             /\ warning # DuplicateKeysWarning
        ELSE IF \E j \in Scanned : PairVal(j) >= Len(layer_.values)
        THEN err = "feature referenced out of range value"
             /\ ret = null_value
             /\ warning # DuplicateKeysWarning
        ELSE IF FirstMatch = 0 /\ Len(tags_iter) % 2 = 1
        THEN err = "uneven number of feature tag ids"
             /\ ret = null_value
             /\ warning # DuplicateKeysWarning
        ELSE IF FirstMatch = 0
        THEN ret = null_value /\ err = "" /\ warning # DuplicateKeysWarning
        ELSE /\ err = ""
             /\ ret = PairValue(FirstMatch)
             /\ tag_itr = 2 * FirstMatch + 1
             /\ IF warning = "nullptr" THEN TRUE
                ELSE (warning = DuplicateKeysWarning) <=>
                         (Cardinality(KeyIndices) > 1)

\* C5 (as claimed): the only failure is a scanned pair whose value-index is
\* >= the value count; when no pair matches the call returns null, whatever
\* the length of the tag stream; and the duplicate-keys warning is written
\* exactly when a match is found and more than one index is registered,
\* whatever the warning argument.
C5_GetValueAsClaimed ==
    pc = "getValue_done" =>
        IF KeyIndices = {}
        THEN ret = null_value /\ err = "" /\ tag_itr = 1
             /\ warning # DuplicateKeysWarning
        ELSE IF \E j \in Scanned : PairVal(j) >= Len(layer_.values)
        THEN err # "" /\ warning # DuplicateKeysWarning
        ELSE IF FirstMatch = 0
        THEN ret = null_value /\ err = "" /\ warning # DuplicateKeysWarning
        ELSE /\ err = ""
             /\ ret = PairValue(FirstMatch)
             /\ tag_itr = 2 * FirstMatch + 1
             /\ (warning = DuplicateKeysWarning) <=>
                    (Cardinality(KeyIndices) > 1)

\* the key is registered twice; the first pair has a key-index out of range
\* and is skipped, the second pair matches the second registered index
C5_Witness ==
    /\ pc = "getValue_done" /\ err = ""
    /\ Cardinality(KeyIndices) = 2
    /\ FirstMatch = 2
    /\ PairKey(1) >= Len(layer_.keys)
    /\ PairKey(2) = 1
    /\ warning = DuplicateKeysWarning
    /\ ret # null_value

(***************************************************************************)
(* Claims about buffer                                                     *)
(***************************************************************************)
Constructed == pc \in {"constructed", "layerNames_done", "getLayer_done"}

\* the positions of the LAYERS fields of the tile
LayerFields == {i \in 1..Len(data) : data[i].tag = TileType_LAYERS}

\* the name a layer message carries: that of its last NAME field
WireName(m) ==
    m[Greatest({i \in 1..Len(m) : m[i].tag = LayerType_NAME})].s

\* the positions of the LAYERS fields named n
Named(n) == {i \in LayerFields : WireName(data[i].m) = n}

\* C3 (as amended): when a tile has several LAYERS sub-messages with the
\* same name, the buffer constructor records the view of the FIRST one in
\* wire order under that name (emplace does not replace), so layerNames()
\* has the name once and getLayer(name) parses the first such layer.
C3_FirstLayerWins ==
    Constructed =>
        /\ DOMAIN layers = {WireName(data[i].m) : i \in LayerFields}
        /\ \A n \in DOMAIN layers : layers[n] = Least(Named(n))
        /\ pc = "layerNames_done" =>
              /\ Len(ret) = Cardinality(DOMAIN layers)
              /\ {ret[i] : i \in 1..Len(ret)} = DOMAIN layers
        /\ (pc = "getLayer_done" /\ name \in DOMAIN layers) =>
              LET l == LayerCtor(data[Least(Named(name))].m)
              IN  err = l.err /\ (err = "" => ret = l.layer)

\* two layers of the same name that parse differently; getLayer gave one
C3_Witness ==
    /\ pc = "getLayer_done" /\ err = ""
    /\ Cardinality(Named(name)) >= 2
    /\ LayerCtor(data[Least(Named(name))].m) #
           LayerCtor(data[Greatest(Named(name))].m)
    /\ LayerCtor(data[Greatest(Named(name))].m).err = ""
    /\ ret = LayerCtor(data[Least(Named(name))].m).layer

\* C3 (as claimed): the constructor records the view of the last layer of a
\* name in wire order, and getLayer(name) parses the last such layer.
C3_LastLayerWins ==
    Constructed =>
        /\ DOMAIN layers = {WireName(data[i].m) : i \in LayerFields}
        /\ \A n \in DOMAIN layers : layers[n] = Greatest(Named(n))
        /\ pc = "layerNames_done" =>
              /\ Len(ret) = Cardinality(DOMAIN layers)
              /\ {ret[i] : i \in 1..Len(ret)} = DOMAIN layers
        /\ (pc = "getLayer_done" /\ name \in DOMAIN layers) =>
              LET l == LayerCtor(data[Greatest(Named(name))].m)
              IN  err = l.err /\ (err = "" => ret = l.layer)

====
